---- MODULE Spec2Model ----
(***************************************************************************)
(* Model of the destructible terrain of tank-wars (src/world/Terrain.ts,   *)
(* src/utils/random.ts, src/config.ts).                                    *)
(*                                                                         *)
(* Numbers.  The program computes in IEEE doubles.  The model computes in  *)
(* fixed point: a length is an integer count of units, Scale units to the  *)
(* pixel, and every real-valued operation (multiplication by a fraction,   *)
(* sqrt, division) rounds toward minus infinity to a whole unit.  Column   *)
(* indices, seeds and the values of rng.int are plain integers.  A 32-bit  *)
(* word is a pair <<hi, lo>> of 16-bit halves, because the model checker's *)
(* integers are themselves 32-bit and signed.                              *)
(***************************************************************************)
EXTENDS Integers, Sequences, FiniteSets, TLC

\* ------------------------------------------------------------------------
\* Bounds of the model
\* ------------------------------------------------------------------------

\* units per pixel of the fixed-point representation
Scale == 100

\* widths of the heightmap for which the recursion of the generation is run
MaxWidth == 128

\* shots fired in a run
MaxShots == 2

\* resets of one terrain that a run follows
MaxResets == 1

\* values drawn from one SeededRandom instance
MaxDraws == 3

\* ------------------------------------------------------------------------
\* Program constants (src/config.ts)
\* ------------------------------------------------------------------------

WORLD_WIDTH == 800

SCREEN_HEIGHT == 600

EXPLOSION_RADIUS == 60

\* Terrain.smoothEdges: const flatWidth = 60
flatWidth == 60

\* Terrain.generate: Phaser.Math.Clamp(groundY[x], 100, this.height - 50)
ClampMin == 100

ClampMargin == 50

\* GAME_CONFIG.GRAVITY, pixels per second squared
GRAVITY == 400

\* GAME_CONFIG.TANK_HEIGHT
TANK_HEIGHT == 20

\* GAME_CONFIG.TURRET_LENGTH
TURRET_LENGTH == 25
INITIAL_HP == 100
EXPLOSION_DAMAGE == 40
DIRECT_HIT_BONUS == 20

\* GameScene.createTanks: the x of tank 1; tank 2 stands at WORLD_WIDTH - 80
tank1X == 80

Presets == {"rolling_hills", "flat_plains", "mountains", "cratered"}

\* TERRAIN_PRESETS; roughness is kept in tenths (0.5 -> 5)
TERRAIN_PRESETS ==
  [ rolling_hills |-> [baseHeight |-> 400, variation |-> 100, roughness10 |-> 5],
    flat_plains   |-> [baseHeight |-> 450, variation |-> 30,  roughness10 |-> 3],
    mountains     |-> [baseHeight |-> 350, variation |-> 150, roughness10 |-> 7],
    cratered      |-> [baseHeight |-> 400, variation |-> 80,  roughness10 |-> 4] ]

\* ------------------------------------------------------------------------
\* Arithmetic helpers
\* ------------------------------------------------------------------------

\* pixels -> units
U(px) == px * Scale

Min(a, b) == IF a < b THEN a ELSE b

Max(a, b) == IF a > b THEN a ELSE b

\* Math.floor(n / d) and Math.ceil(n / d) for d > 0
Floor(n, d) == n \div d

Ceil(n, d) == -((-n) \div d)

\* Math.sqrt on a non-negative number of squared units, rounded down
RECURSIVE SqrtSearch(_, _, _)
SqrtSearch(n, lo, hi) ==
  IF lo >= hi THEN lo
  ELSE CHOOSE root \in { IF mid * mid <= n THEN SqrtSearch(n, mid, hi)
                                            ELSE SqrtSearch(n, lo, mid - 1) :
                         mid \in {(lo + hi + 1) \div 2} } : TRUE

Sqrt(n) == SqrtSearch(n, 0, 46340)

\* Phaser.Math.Clamp(v, lo, hi)
Clamp(v, lo, hi) == Max(lo, Min(hi, v))

\* Phaser.Math.Linear(p0, p1, t) = (p1 - p0) * t + p0, with t = tn / td
Linear(p0, p1, tn, td) == Floor((p1 - p0) * tn, td) + p0

\* ------------------------------------------------------------------------
\* 32-bit words as <<hi, lo>>
\* ------------------------------------------------------------------------

H16 == 2^16

Word(n) == <<(n \div H16) % H16, n % H16>>

RECURSIVE BitXor(_, _)
BitXor(a, b) ==
  IF a = 0 THEN b
  ELSE IF b = 0 THEN a
  ELSE ((a + b) % 2) + 2 * BitXor(a \div 2, b \div 2)

RECURSIVE BitOr(_, _)
BitOr(a, b) ==
  IF a = 0 THEN b
  ELSE IF b = 0 THEN a
  ELSE (IF a % 2 = 1 \/ b % 2 = 1 THEN 1 ELSE 0) + 2 * BitOr(a \div 2, b \div 2)

\* the bitwise operators on 4-bit digits, tabulated once
XorNibble == [a \in 0 .. 15 |-> [b \in 0 .. 15 |-> BitXor(a, b)]]

OrNibble == [a \in 0 .. 15 |-> [b \in 0 .. 15 |-> BitOr(a, b)]]

\* a ^ b and a | b on 16-bit halves, digit by digit
Xor16(a, b) ==
  XorNibble[a % 16][b % 16]
  + 16 * XorNibble[(a \div 16) % 16][(b \div 16) % 16]
  + 256 * XorNibble[(a \div 256) % 16][(b \div 256) % 16]
  + 4096 * XorNibble[a \div 4096][b \div 4096]

Or16(a, b) ==
  OrNibble[a % 16][b % 16]
  + 16 * OrNibble[(a \div 16) % 16][(b \div 16) % 16]
  + 256 * OrNibble[(a \div 256) % 16][(b \div 256) % 16]
  + 4096 * OrNibble[a \div 4096][b \div 4096]

Xor32(a, b) == <<Xor16(a[1], b[1]), Xor16(a[2], b[2])>>

\* a | k for a small constant k < 2^16
Or32(a, k) == <<a[1], Or16(a[2], k)>>

\* a >>> n for 0 < n < 16
Shr32(a, n) ==
  <<a[1] \div 2^n, (a[2] \div 2^n) + (a[1] % 2^n) * 2^(16 - n)>>

\* (a + b) mod 2^32
Add32(a, b) ==
  LET lo == a[2] + b[2]
  IN <<(a[1] + b[1] + (lo \div H16)) % H16, lo % H16>>

\* low 16 bits of the product of two 16-bit numbers
MulLo16(x, y) == (x * (y % 256) + ((x * (y \div 256)) % 256) * 256) % H16

\* Math.imul(a, b): low 32 bits of the product
Imul(a, b) ==
  LET a0 == a[2] % 256
      a1 == a[2] \div 256
      b0 == b[2] % 256
      b1 == b[2] \div 256
      low == (a1 * b0 + a0 * b1) * 256 + a0 * b0
      carry == (low \div H16) + a1 * b1
  IN <<(carry + MulLo16(a[1], b[2]) + MulLo16(a[2], b[1])) % H16, low % H16>>

\* ------------------------------------------------------------------------
\* src/utils/random.ts
\* ------------------------------------------------------------------------

\* createRandom, line 15: the numerator (t ^ (t >>> 14)) >>> 0
mixOut(t) == Xor32(t, Shr32(t, 14))

\* createRandom, line 14: t ^= t + Math.imul(t ^ (t >>> 7), t | 61)
mixSecond(t) == Xor32(t, Add32(t, Imul(Xor32(t, Shr32(t, 7)), Or32(t, 61))))

\* createRandom, line 13: t = Math.imul(t ^ (t >>> 15), t | 1)
mixFirst(t) == Imul(Xor32(t, Shr32(t, 15)), Or32(t, 1))

\* createRandom, lines 13-15, on the closure state s1 already advanced
drawFrom(s1) == [state |-> s1, value |-> mixOut(mixSecond(mixFirst(s1)))]

\* createRandom: one call of the returned closure on closure state s;
\* yields the new closure state and the 32-bit numerator of the result
Mulberry32(s) == drawFrom(Add32(s, <<27947, 31221>>))   \* seed += 0x6d2b79f5

\* new SeededRandom(sd): the seed kept readable, the closure state, the number
\* of values returned so far and the last value returned
newSeededRandom(sd) == [seed |-> sd, state |-> Word(sd), calls |-> 0, value |-> <<0, 0>>]

\* SeededRandom.random() on instance r, m being the call of its closure
returned(r, m) ==
  [seed |-> r.seed, state |-> m.state, calls |-> r.calls + 1, value |-> m.value]

\* random() on instance i of ss with one closure state (that of instance 1)
\* shared by every instance
randomShared(ss, i) ==
  [j \in DOMAIN ss |->
     IF j = i THEN returned([ss[i] EXCEPT !.state = ss[1].state], Mulberry32(ss[1].state))
     ELSE IF j = 1 THEN [ss[1] EXCEPT !.state = Mulberry32(ss[1].state).state]
     ELSE ss[j]]

\* SeededRandom.random() on instance i of the instances ss: every instance
\* owns the closure createRandom made for it
random(ss, i) ==
  [j \in DOMAIN ss |-> IF j = i THEN returned(ss[i], Mulberry32(ss[i].state)) ELSE ss[j]]

\* rng() * span for 0 <= span < 2^15, rounded down
MulFrac(r, span) == (r[1] * span + ((r[2] * span) \div H16)) \div H16

\* SeededRandom.range(min, max) given the value drawn
RangeOf(r, min, max) == min + MulFrac(r, max - min)

\* SeededRandom.int(min, max) given the value drawn
IntOf(r, min, max) == RangeOf(r, min, max + 1)

\* the low 32 bits of r * span: the fraction of rng() * span, over 2^32
fractionOf(r, span) == Add32(<<(r[1] * span) % H16, 0>>, Word(r[2] * span))

\* the bits of a 32-bit fraction that a double (53 significant bits) of whole
\* part w cannot hold
RECURSIVE lostBits(_)
lostBits(w) ==
  IF w < 0 THEN lostBits(-w)
  ELSE IF w < 2^21 THEN 0
  ELSE 1 + lostBits(w \div 2)

\* rounding to the nearest multiple of 2^d, ties to the even one: is the low
\* half lo of the fraction rounded up
roundsUp(lo, d) ==
  \/ lo % (2^d) > 2^(d - 1)
  \/ lo % (2^d) = 2^(d - 1) /\ (lo \div (2^d)) % 2 = 1

\* the low half lo of the fraction rounded to a multiple of 2^d (up to 2^16)
roundedLow(lo, d) ==
  IF roundsUp(lo, d) THEN (lo \div (2^d) + 1) * (2^d) ELSE (lo \div (2^d)) * (2^d)

\* the double nearest to whole + f / 2^32, d being the bits it cannot hold
roundSum(whole, f, d) ==
  IF d = 0 THEN [whole |-> whole, fraction |-> f]
  ELSE IF roundedLow(f[2], d) < H16
       THEN [whole |-> whole, fraction |-> <<f[1], roundedLow(f[2], d)>>]
  ELSE IF f[1] + 1 < H16
       THEN [whole |-> whole, fraction |-> <<f[1] + 1, 0>>]
  ELSE [whole |-> whole + 1, fraction |-> <<0, 0>>]

\* SeededRandom.range(min, max) for integers min < max, r being the value
\* drawn: min + r * (max - min) as the double the addition yields (the product
\* is exact), its whole part and its fraction over 2^32
range(r, min, max) ==
  roundSum(RangeOf(r, min, max), fractionOf(r, max - min),
           lostBits(RangeOf(r, min, max)))

\* SeededRandom.int(min, max): Math.floor(range(min, max + 1))
int(r, min, max) == range(r, min, max + 1).whole

\* ------------------------------------------------------------------------
\* src/world/Terrain.ts : generation
\* ------------------------------------------------------------------------

Columns == 0 .. (WORLD_WIDTH - 1)

\* this.height = GAME_CONFIG.SCREEN_HEIGHT, in units
WorldHeight == U(SCREEN_HEIGHT)

\* new Array(this.width).fill(0)
ZeroGround == [x \in Columns |-> 0]

RECURSIVE midpointDisplace(_, _, _, _, _)

\* Terrain.midpointDisplace: this.groundY[mid] = avg + rng.range(-variation, variation),
\* m being the draw
displaceMid(st, left, right, mid, m, variation) ==
  [g |-> [st.g EXCEPT ![mid] = Floor(st.g[left] + st.g[right], 2)
                               + RangeOf(m.value, -variation, variation)],
   s |-> m.state]

\* Terrain.midpointDisplace: the second recursive call; the test only makes the
\* left half complete before the right half starts
displaceRight(leftDone, mid, right, newVariation, roughness10) ==
  IF leftDone.s[1] < H16
  THEN midpointDisplace(leftDone, mid, right, newVariation, roughness10)
  ELSE leftDone

\* Terrain.midpointDisplace: the two recursive calls, left half first
displaceHalves(st1, left, mid, right, newVariation, roughness10) ==
  displaceRight(midpointDisplace(st1, left, mid, newVariation, roughness10),
                mid, right, newVariation, roughness10)

\* midpointDisplace stopping one level early (right - left < 3): the middle
\* column of a span of three is never assigned
RECURSIVE midpointDisplaceStopEarly(_, _, _, _, _)
midpointDisplaceStopEarly(st, left, right, variation, roughness10) ==
  IF right - left < 3 THEN st
  ELSE LET mid == Floor(left + right, 2)
           avg == Floor(st.g[left] + st.g[right], 2)
           m   == Mulberry32(st.s)
           st1 == [g |-> [st.g EXCEPT ![mid] = avg + RangeOf(m.value, -variation, variation)],
                   s |-> m.state]
           newVariation == Floor(variation * roughness10, 10)
           leftDone == midpointDisplaceStopEarly(st1, left, mid, newVariation, roughness10)
       IN IF leftDone.s[1] < H16
          THEN midpointDisplaceStopEarly(leftDone, mid, right, newVariation, roughness10)
          ELSE leftDone

\* Terrain.midpointDisplace; st = [g |-> heightmap, s |-> rng closure state]
midpointDisplace(st, left, right, variation, roughness10) ==
  IF right - left < 2 THEN st
  ELSE displaceHalves(displaceMid(st, left, right, Floor(left + right, 2),
                                  Mulberry32(st.s), variation),
                      left, Floor(left + right, 2), right,
                      Floor(variation * roughness10, 10), roughness10)

\* midpointDisplace whose second recursive call starts one column after mid
RECURSIVE displaceOrderSkipping(_, _)
displaceOrderSkipping(left, right) ==
  IF right - left < 2 THEN << >>
  ELSE <<[mid |-> Floor(left + right, 2), left |-> left, right |-> right]>>
       \o displaceOrderSkipping(left, Floor(left + right, 2))
       \o displaceOrderSkipping(Floor(left + right, 2) + 1, right)

\* Terrain.midpointDisplace(left, right, ...), the indices only: the writes
\* this.groundY[mid] = ... in the order in which the recursion does them, each
\* with the two columns whose heights it reads
RECURSIVE displaceOrder(_, _)
displaceOrder(left, right) ==
  IF right - left < 2 THEN << >>
  ELSE <<[mid |-> Floor(left + right, 2), left |-> left, right |-> right]>>
       \o displaceOrder(left, Floor(left + right, 2))
       \o displaceOrder(Floor(left + right, 2), right)

\* Terrain.addCraters, the inner loop: one depression of the given shape
depress(g, cx, radius, depth) ==
  [x \in Columns |->
     IF x >= cx - radius /\ x <= cx + radius /\ (x - cx) * (x - cx) < radius * radius
     THEN g[x] + Floor(depth * Sqrt(Floor((radius * radius - (x - cx) * (x - cx))
                                            * Scale * Scale, radius * radius)),
                       Scale)
     ELSE g[x]]

\* Terrain.addCraters, body of the outer loop, with cx and radius drawn:
\* depth = rng.range(20, 40) from the draw m3
depressDrawn(g, cx, radius, m3) ==
  [g |-> depress(g, cx, radius, RangeOf(m3.value, U(20), U(40))), s |-> m3.state]

\* ... with cx drawn: radius = rng.int(30, 60) from the draw m2
depressAt(g, cx, m2) == depressDrawn(g, cx, IntOf(m2.value, 30, 60), Mulberry32(m2.state))

\* ... cx = rng.int(100, width - 100) from the draw m1
depressFrom(g, m1) ==
  depressAt(g, IntOf(m1.value, 100, WORLD_WIDTH - 100), Mulberry32(m1.state))

\* Terrain.addCraters, body of the outer loop: one depression
addOneCrater(st) == depressFrom(st.g, Mulberry32(st.s))

RECURSIVE addCratersLoop(_, _)
addCratersLoop(st, n) == IF n = 0 THEN st ELSE addCratersLoop(addOneCrater(st), n - 1)

\* Terrain.addCraters given the draw m of craterCount = rng.int(3, 6)
addCratersCount(g, m) == addCratersLoop([g |-> g, s |-> m.state], IntOf(m.value, 3, 6))

\* Terrain.addCraters
addCraters(st) == addCratersCount(st.g, Mulberry32(st.s))

\* Terrain.smoothEdges, the left loop
smoothLeft(g) ==
  [x \in Columns |->
     IF x < flatWidth
     THEN Linear(g[flatWidth], g[flatWidth], x * x, flatWidth * flatWidth)
     ELSE g[x]]

\* Terrain.smoothEdges, the right loop
smoothRight(g) ==
  [x \in Columns |->
     IF x >= WORLD_WIDTH - flatWidth
     THEN Linear(g[WORLD_WIDTH - flatWidth], g[WORLD_WIDTH - flatWidth],
                 flatWidth * flatWidth
                 - (flatWidth - (x - (WORLD_WIDTH - flatWidth)))
                   * (flatWidth - (x - (WORLD_WIDTH - flatWidth))),
                 flatWidth * flatWidth)
     ELSE g[x]]

\* smoothEdges without its right loop
smoothEdgesLeftOnly(g) == smoothLeft(g)

\* smoothEdges without its left loop
smoothEdgesRightOnly(g) == smoothRight(g)

\* Terrain.smoothEdges (the left loop runs first, then the right loop)
smoothEdges(g) == smoothRight(smoothLeft(g))

\* generate without its final clamp
clampGroundOff(g) == g

\* Terrain.generate: the final clamp to the screen bounds
clampGround(g) ==
  [x \in Columns |-> Clamp(g[x], U(ClampMin), WorldHeight - U(ClampMargin))]

\* Terrain.generate: the preset-specific features
applyFeatures(st, p) == IF p = "cratered" THEN addCraters(st) ELSE st

\* Terrain.generate from the midpoint displacement on, the endpoints being set
generateFrom(st, p, params) ==
  clampGround(smoothEdges(applyFeatures(
    midpointDisplace(st, 0, WORLD_WIDTH - 1, U(params.variation),
                     params.roughness10), p).g))

\* setEndpoints that leaves the right endpoint as it finds it
setEndpointsKeepRight(g0, baseHeight, v03, m1, m2) ==
  [g |-> [g0 EXCEPT ![0] = baseHeight + RangeOf(m1.value, -v03, v03)],
   s |-> m2.state]

\* Terrain.generate: the two endpoints, m1 and m2 being the draws, v03 = variation * 0.3
setEndpoints(g0, baseHeight, v03, m1, m2) ==
  [g |-> [g0 EXCEPT ![0] = baseHeight + RangeOf(m1.value, -v03, v03),
                    ![WORLD_WIDTH - 1] = baseHeight + RangeOf(m2.value, -v03, v03)],
   s |-> m2.state]

\* Terrain.generate: the endpoints, the first draw being m1
drawEndpoints(g0, baseHeight, v03, m1) ==
  setEndpoints(g0, baseHeight, v03, m1, Mulberry32(m1.state))

\* Terrain.generate with params = TERRAIN_PRESETS[this.preset], run on the
\* array content g0 with a fresh stream of seed sd
generateWith(g0, p, params, sd) ==
  generateFrom(drawEndpoints(g0, U(params.baseHeight),
                             Floor(U(params.variation) * 3, 10),
                             Mulberry32(Word(sd))), p, params)

\* Terrain.generate, run on the array content g0 with a fresh stream of seed sd
generate(g0, p, sd) == generateWith(g0, p, TERRAIN_PRESETS[p], sd)

\* new Terrain(scene, p, sd) with the preset table being table: destructuring
\* table[p] throws a TypeError when p is no key of the table; nothing else
\* inspects the configuration
construct(table, p, sd) ==
  IF p \in DOMAIN table
  THEN [failed |-> FALSE, groundY |-> generateWith(ZeroGround, p, table[p], sd)]
  ELSE [failed |-> TRUE, groundY |-> ZeroGround]

\* ------------------------------------------------------------------------
\* src/world/Terrain.ts : queries and carving
\* ------------------------------------------------------------------------

\* isUnderground with a strict comparison against the surface
isUndergroundStrict(g, x, y) ==
  IF x < 0 \/ x >= U(WORLD_WIDTH) THEN FALSE
  ELSE IF y < 0 THEN FALSE
  ELSE y > g[Floor(x, Scale)] \/ y >= WorldHeight

\* Terrain.isUnderground(x, y) on heightmap g; x and y in units
isUnderground(g, x, y) ==
  IF x < 0 \/ x >= U(WORLD_WIDTH) THEN FALSE
  ELSE IF y < 0 THEN FALSE
  ELSE y >= g[Floor(x, Scale)] \/ y >= WorldHeight

\* getGroundY answering with the nearest edge column outside the range
getGroundYClamped(g, x) == g[Clamp(Floor(x, Scale), 0, WORLD_WIDTH - 1)]

\* Terrain.getGroundY(x) on heightmap g; x in units
getGroundY(g, x) ==
  IF x < 0 \/ x >= U(WORLD_WIDTH) THEN U(SCREEN_HEIGHT)
  ELSE g[Floor(x, Scale)]

\* carveColumn without the comparison against the current ground
carveColumnAlways(gx, x, cx, cy, radius) ==
  LET dx == U(x) - cx
      halfChord == Sqrt(Max(0, radius * radius - dx * dx))
  IN IF cy - halfChord < WorldHeight THEN Min(WorldHeight, cy + halfChord) ELSE gx

\* carveColumn digging the half chord below the current ground
carveColumnFromGround(gx, x, cx, cy, radius) ==
  LET dx == U(x) - cx
      halfChord == Sqrt(Max(0, radius * radius - dx * dx))
  IN IF cy + halfChord >= gx /\ cy - halfChord < WorldHeight
     THEN Min(WorldHeight, gx + halfChord)
     ELSE gx

\* carveColumn without the test of craterTop against the floor
carveColumnNoTopGuard(gx, x, cx, cy, radius) ==
  LET dx == U(x) - cx
      craterBottom == cy + Sqrt(Max(0, radius * radius - dx * dx))
  IN IF craterBottom > gx THEN Min(WorldHeight, craterBottom) ELSE gx

\* carveColumn without the final min against the world height
carveColumnNoFloor(gx, x, cx, cy, radius) ==
  LET dx == U(x) - cx
      halfChord == Sqrt(Max(0, radius * radius - dx * dx))
  IN IF cy + halfChord > gx /\ cy - halfChord < WorldHeight THEN cy + halfChord ELSE gx

\* carveColumn writing the circle's upper boundary instead of its lower one
carveColumnTopEdge(gx, x, cx, cy, radius) ==
  LET dx == U(x) - cx
      halfChord == Sqrt(Max(0, radius * radius - dx * dx))
  IN IF cy + halfChord > gx /\ cy - halfChord < WorldHeight
     THEN Min(WorldHeight, cy - halfChord)
     ELSE gx

\* Terrain.updateHeightmapAfterCrater: the new value of column x
carveColumn(gx, x, cx, cy, radius) ==
  LET dx == U(x) - cx
      halfChord == Sqrt(Max(0, radius * radius - dx * dx))
      craterTop == cy - halfChord
      craterBottom == cy + halfChord
  IN IF craterBottom >= gx /\ craterTop < WorldHeight
     THEN IF craterBottom > gx THEN Min(WorldHeight, craterBottom) ELSE gx
     ELSE gx

\* Terrain.updateHeightmapAfterCrater(cx, cy, radius); all three in units
updateHeightmapAfterCrater(g, cx, cy, radius) ==
  LET startX == Max(0, Floor(cx - radius, Scale))
      endX == Min(WORLD_WIDTH - 1, Ceil(cx + radius, Scale))
  IN [x \in Columns |->
        IF x >= startX /\ x <= endX THEN carveColumn(g[x], x, cx, cy, radius) ELSE g[x]]

\* ------------------------------------------------------------------------
\* src/world/Terrain.ts : raycastCollision
\* ------------------------------------------------------------------------

\* raycastCollision returning null
NoHit == [hit |-> FALSE]

\* Math.ceil(Math.sqrt(n)) in whole pixels for n in square units, r being the
\* whole part of the square root of n
ceilRoot(n, r) == IF r * r = n THEN Ceil(r, Scale) ELSE Ceil(r + 1, Scale)

\* raycastCollision: steps = Math.max(1, Math.ceil(distance)); dx, dy in units
raySteps(dx, dy) == Max(1, ceilRoot(dx * dx + dy * dy, Sqrt(dx * dx + dy * dy)))

\* raycastCollision: start + step * i with step = d / steps
raySample(start, d, steps, i) == start + Floor(d * i, steps)

\* the loop of raycastCollision without its last iteration (i < steps)
RECURSIVE rayScanSkipEnd(_, _, _, _, _, _, _)
rayScanSkipEnd(g, sx, sy, dx, dy, steps, i) ==
  IF i >= steps THEN NoHit
  ELSE IF isUnderground(g, raySample(sx, dx, steps, i), raySample(sy, dy, steps, i))
       THEN [hit |-> TRUE, x |-> raySample(sx, dx, steps, i), y |-> raySample(sy, dy, steps, i)]
       ELSE rayScanSkipEnd(g, sx, sy, dx, dy, steps, i + 1)

\* the loop of raycastCollision answering with the end of the ray
RECURSIVE rayScanReturnEnd(_, _, _, _, _, _, _)
rayScanReturnEnd(g, sx, sy, dx, dy, steps, i) ==
  IF i > steps THEN NoHit
  ELSE IF isUnderground(g, raySample(sx, dx, steps, i), raySample(sy, dy, steps, i))
       THEN [hit |-> TRUE, x |-> sx + dx, y |-> sy + dy]
       ELSE rayScanReturnEnd(g, sx, sy, dx, dy, steps, i + 1)

\* raycastCollision: the loop from iteration i on
RECURSIVE rayScan(_, _, _, _, _, _, _)
rayScan(g, sx, sy, dx, dy, steps, i) ==
  IF i > steps THEN NoHit
  ELSE IF isUnderground(g, raySample(sx, dx, steps, i), raySample(sy, dy, steps, i))
       THEN [hit |-> TRUE, x |-> raySample(sx, dx, steps, i), y |-> raySample(sy, dy, steps, i)]
       ELSE rayScan(g, sx, sy, dx, dy, steps, i + 1)

\* Terrain.raycastCollision(startX, startY, endX, endY) on heightmap g, in units
raycastCollision(g, sx, sy, ex, ey) ==
  rayScan(g, sx, sy, ex - sx, ey - sy, raySteps(ex - sx, ey - sy), 0)

\* ------------------------------------------------------------------------
\* entities/Projectile.ts, entities/Tank.ts
\* ------------------------------------------------------------------------

\* Tank.getTurretTip for a tank at (tx, ty) aiming along (aim[1], aim[2]) / 10,
\* the cosine and sine of its effective angle
getTurretTip(tx, ty, aim) ==
  [x |-> tx + Floor(U(TURRET_LENGTH) * aim[1], 10),
   y |-> ty - U(TANK_HEIGHT) - Floor(U(TURRET_LENGTH) * aim[2], 10)]

\* Tank.getFireVelocity with power aim[3], in units per second
getFireVelocity(aim) ==
  [vx |-> Floor(U(aim[3]) * aim[1], 10), vy |-> -Floor(U(aim[3]) * aim[2], 10)]

\* Projectile.fire(x, y, vx, vy, wind)
fire(x, y, vx, vy, wind) ==
  [active |-> TRUE, x |-> x, y |-> y, prevX |-> x, prevY |-> y, vx |-> vx, vy |-> vy,
   wind |-> wind]

\* Projectile.update(dt) of a projectile in flight, dt in milliseconds
projectileUpdate(p, dt) ==
  [p EXCEPT !.prevX = p.x,
            !.prevY = p.y,
            !.vy = p.vy + Floor(U(GRAVITY) * dt, 1000),
            !.vx = p.vx + Floor(p.wind * dt, 1000),
            !.x = p.x + Floor((p.vx + Floor(p.wind * dt, 1000)) * dt, 1000),
            !.y = p.y + Floor((p.vy + Floor(U(GRAVITY) * dt, 1000)) * dt, 1000)]

\* Projectile.isOutOfBounds
isOutOfBounds(p) ==
  \/ p.x < -U(50)
  \/ p.x > U(WORLD_WIDTH + 50)
  \/ p.y > U(SCREEN_HEIGHT + 50)
  \/ p.y < -U(500)

\* Projectile.deactivate
deactivate(p) == [p EXCEPT !.active = FALSE]

\* Projectile.reset(): the wind of the last shot stays
projectileReset(p) ==
  [p EXCEPT !.active = FALSE, !.x = 0, !.y = 0, !.prevX = 0, !.prevY = 0, !.vx = 0,
            !.vy = 0]

\* ------------------------------------------------------------------------
\* src/state/TurnManager.ts
\* ------------------------------------------------------------------------

\* new TurnManager(), wind being what generateWind draws
newTurnManager(wind) ==
  [state |-> "AIMING", currentPlayer |-> 1, wind |-> wind, winner |-> 0]

\* TurnManager.fire
turnFire(tm) == IF tm.state = "AIMING" THEN [tm EXCEPT !.state = "FIRING"] ELSE tm

\* TurnManager.projectileLanded
projectileLanded(tm) ==
  IF tm.state = "FIRING" THEN [tm EXCEPT !.state = "RESOLVING"] ELSE tm

\* resolveComplete naming the survivor of player 2 first
resolveCompleteSecondFirst(tm, player1Alive, player2Alive) ==
  IF tm.state # "RESOLVING" THEN tm
  ELSE IF ~player2Alive THEN [tm EXCEPT !.winner = 1, !.state = "GAME_OVER"]
  ELSE IF ~player1Alive THEN [tm EXCEPT !.winner = 2, !.state = "GAME_OVER"]
  ELSE [tm EXCEPT !.state = "TURN_END"]

\* TurnManager.resolveComplete(player1Alive, player2Alive)
resolveComplete(tm, player1Alive, player2Alive) ==
  IF tm.state # "RESOLVING" THEN tm
  ELSE IF ~player1Alive THEN [tm EXCEPT !.winner = 2, !.state = "GAME_OVER"]
  ELSE IF ~player2Alive THEN [tm EXCEPT !.winner = 1, !.state = "GAME_OVER"]
  ELSE [tm EXCEPT !.state = "TURN_END"]

\* nextTurn without its guard on the state
nextTurnUnguarded(tm, wind) ==
  [tm EXCEPT !.currentPlayer = IF tm.currentPlayer = 1 THEN 2 ELSE 1,
             !.wind = wind,
             !.state = "AIMING"]

\* TurnManager.nextTurn, wind being what generateWind draws
nextTurn(tm, wind) ==
  IF tm.state # "TURN_END" THEN tm
  ELSE [tm EXCEPT !.currentPlayer = IF tm.currentPlayer = 1 THEN 2 ELSE 1,
                  !.wind = wind,
                  !.state = "AIMING"]

\* TurnManager.reset, wind being what generateWind draws; it assigns the
\* state directly and invokes no callback
turnReset(tm, wind) ==
  [state |-> "AIMING", currentPlayer |-> 1, wind |-> wind, winner |-> 0]

\* setState ran in a call that took tm to after: every call that passes its
\* guard goes through setState, which invokes the state-change callback
calledBack(tm, after) == after.state # tm.state

\* ------------------------------------------------------------------------
\* src/scenes/GameScene.ts and the Tank entity
\* ------------------------------------------------------------------------

\* the delayed calls of the scene, by what they run: startTankSettling
\* (300 ms), resolveComplete (100 ms), nextTurn (500 ms), the AI's fire (300 ms)
TimerKinds == {"settle", "resolve", "nextTurn", "aiFire"}

\* GameScene.createTanks / restartGame: the column of tank i
tankX(i) == IF i = 1 THEN tank1X ELSE WORLD_WIDTH - tank1X

\* new Tank(scene, x, y, playerId), or a tank after setPosition and reset
newTank(y) ==
  [y |-> y, hp |-> INITIAL_HP, alive |-> TRUE, isFalling |-> FALSE, fallVelocity |-> 0]

\* both tanks standing on the ground g
newTanks(g) == [i \in {1, 2} |-> newTank(getGroundY(g, U(tankX(i))))]

\* the fields of GameScene after create(), and hasDecided of its TankAI;
\* carves counts the createCrater calls since the state last became FIRING,
\* aimed is the player of the previous AIMING phase (0: none since the start
\* or the restart)
newScene(vsAI, g) ==
  [vsAI |-> vsAI, aiReadyToFire |-> FALSE, hasDecided |-> FALSE, tanksSettling |-> FALSE,
   timers |-> [k \in TimerKinds |-> 0], tanks |-> newTanks(g), carves |-> 0, aimed |-> 0]

\* this.time.delayedCall(delay, callback) for the callback kind
delayedCall(sc, kind) == [sc EXCEPT !.timers[kind] = @ + 1]

\* GameScene.onStateChange(newState) and, for TURN_END, its delayed call
onStateChange(sc, tm) ==
  IF tm.state = "TURN_END" THEN delayedCall(sc, "nextTurn")
  ELSE IF tm.state = "AIMING" /\ sc.vsAI /\ tm.currentPlayer = 2
       THEN [sc EXCEPT !.aiReadyToFire = FALSE, !.hasDecided = FALSE]
  ELSE sc

\* TurnManager.setState as seen by the scene: a method of the TurnManager took
\* it from w.tm to tm; the callback runs if setState was called
stateSet(w, tm) ==
  [w EXCEPT !.tm = tm,
            !.sc = IF calledBack(w.tm, tm) THEN onStateChange(w.sc, tm) ELSE w.sc]

\* Tank.takeDamage(amount)
takeDamage(t, amount) ==
  [t EXCEPT !.hp = Max(0, t.hp - amount), !.alive = t.alive /\ t.hp - amount > 0]

\* GameScene.applyExplosionDamage for one tank, d being its distance from the
\* explosion
damaged(t, d) ==
  IF d < U(EXPLOSION_RADIUS)
  THEN takeDamage(t, Floor((U(EXPLOSION_RADIUS) - d) * EXPLOSION_DAMAGE * 2
                           + U(EXPLOSION_RADIUS), 2 * U(EXPLOSION_RADIUS))
                     + (IF d < U(30) THEN DIRECT_HIT_BONUS ELSE 0))
  ELSE t

\* Tank.getDistanceFrom(px, py) given the differences dx and dy, cut at the
\* explosion radius
distanceWithin(dx, dy) ==
  IF dx >= U(EXPLOSION_RADIUS) \/ -dx >= U(EXPLOSION_RADIUS)
     \/ dy >= U(EXPLOSION_RADIUS) \/ -dy >= U(EXPLOSION_RADIUS)
  THEN U(EXPLOSION_RADIUS)
  ELSE Sqrt(dx * dx + dy * dy)

\* GameScene.applyExplosionDamage(x, y)
applyExplosionDamage(tanks, x, y) ==
  [i \in {1, 2} |->
     IF tanks[i].alive
     THEN damaged(tanks[i],
                  distanceWithin(U(tankX(i)) - x,
                                 tanks[i].y - U(TANK_HEIGHT) \div 2 - y))
     ELSE tanks[i]]

\* Tank.checkFalling(groundY)
checkFalling(t, gy) ==
  IF t.y < gy /\ ~t.isFalling THEN [t EXCEPT !.isFalling = TRUE, !.fallVelocity = 0] ELSE t

\* Tank.updateFalling: the landing, v being the fall velocity reached
landedTank(t, gy, v) ==
  IF v > U(200) /\ Floor(v - U(200), U(20)) > 0
  THEN takeDamage([t EXCEPT !.y = gy, !.isFalling = FALSE, !.fallVelocity = 0],
                  Floor(v - U(200), U(20)))
  ELSE [t EXCEPT !.y = gy, !.isFalling = FALSE, !.fallVelocity = 0]

\* Tank.updateFalling(dt, groundY) with the new velocity v, dt in milliseconds
fallWith(t, dt, gy, v) ==
  IF t.y + Floor(v * dt, 1000) >= gy THEN landedTank(t, gy, v)
  ELSE [t EXCEPT !.y = t.y + Floor(v * dt, 1000), !.fallVelocity = v]

\* Tank.updateFalling(dt, groundY)
updateFalling(t, dt, gy) ==
  IF ~t.isFalling THEN t
  ELSE fallWith(t, dt, gy, t.fallVelocity + Floor(U(GRAVITY) * dt, 1000))

\* finishTurnResolution that forgets to call resolveComplete
finishTurnResolutionIdle(w) == [w EXCEPT !.sc.tanksSettling = FALSE]

\* GameScene.finishTurnResolution
finishTurnResolution(w) ==
  stateSet([w EXCEPT !.sc.tanksSettling = FALSE],
           resolveComplete(w.tm, w.sc.tanks[1].alive, w.sc.tanks[2].alive))

\* GameScene.startTankSettling, checked being the tanks after checkFalling
settleWith(w, checked) ==
  IF \E i \in {1, 2} : w.sc.tanks[i].alive /\ checked[i].isFalling /\ ~w.sc.tanks[i].isFalling
  THEN [w EXCEPT !.sc.tanks = checked, !.sc.tanksSettling = TRUE]
  ELSE finishTurnResolution([w EXCEPT !.sc.tanks = checked])

\* GameScene.startTankSettling
startTankSettling(w) ==
  settleWith(w, [i \in {1, 2} |->
                   IF w.sc.tanks[i].alive
                   THEN checkFalling(w.sc.tanks[i], getGroundY(w.g, U(tankX(i))))
                   ELSE w.sc.tanks[i]])

\* GameScene.updateTankFalling, moved being the tanks after updateFalling
fallenWith(w, moved) ==
  IF \E i \in {1, 2} : w.sc.tanks[i].alive /\ w.sc.tanks[i].isFalling /\ moved[i].isFalling
  THEN [w EXCEPT !.sc.tanks = moved]
  ELSE finishTurnResolution([w EXCEPT !.sc.tanks = moved])

\* GameScene.updateTankFalling(dt)
updateTankFalling(w, dt) ==
  fallenWith(w, [i \in {1, 2} |->
                   IF w.sc.tanks[i].alive /\ w.sc.tanks[i].isFalling
                   THEN updateFalling(w.sc.tanks[i], dt, getGroundY(w.g, U(tankX(i))))
                   ELSE w.sc.tanks[i]])

\* the aim of the tank of a player: tank 2 faces left (effectiveAngle = PI - angle)
aimOf(player, aim) == IF player = 1 THEN aim ELSE <<-aim[1], aim[2], aim[3]>>

\* GameScene.fire: Projectile.fire from the tank at column x standing at y
fireFrom(x, y, aim, wind) ==
  fire(getTurretTip(x, y, aim).x, getTurretTip(x, y, aim).y,
       getFireVelocity(aim).vx, getFireVelocity(aim).vy, wind)

\* GameScene.fire, the active tank aiming as aim
sceneFire(w, aim) ==
  stateSet([w EXCEPT
              !.p = fireFrom(U(tankX(w.tm.currentPlayer)),
                             w.sc.tanks[w.tm.currentPlayer].y,
                             aimOf(w.tm.currentPlayer, aim), w.tm.wind),
              !.sc.carves = IF w.tm.state = "AIMING" THEN 0 ELSE @,
              !.sc.aimed = IF w.tm.state = "AIMING" THEN w.tm.currentPlayer ELSE @,
              !.fired = TRUE],
           turnFire(w.tm))

\* the scene after the explosion at the projectile: the crater counted, the
\* tanks damaged, startTankSettling scheduled
exploded(w) ==
  delayedCall([w.sc EXCEPT !.carves = @ + 1,
                           !.tanks = applyExplosionDamage(@, w.p.x, w.p.y)], "settle")

\* handleImpact that leaves the projectile in flight
handleImpactStillActive(w, carved) ==
  stateSet([w EXCEPT !.g = carved, !.fresh = FALSE, !.impact = TRUE, !.sc = exploded(w)],
           projectileLanded(w.tm))

\* GameScene.handleImpact(projectile.x, projectile.y), carved being the
\* heightmap that terrain.createCrater(x, y, EXPLOSION_RADIUS) leaves
handleImpact(w, carved) ==
  stateSet([w EXCEPT !.p = deactivate(w.p), !.g = carved, !.fresh = FALSE,
                     !.impact = TRUE, !.landed = TRUE, !.sc = exploded(w)],
           projectileLanded(w.tm))

\* GameScene.update: the branch of a projectile out of bounds
leavePlayArea(w) ==
  stateSet([w EXCEPT !.p = deactivate(w.p), !.landed = TRUE,
                     !.sc = delayedCall(w.sc, "resolve")],
           projectileLanded(w.tm))

\* GameScene.update: the projectile after Projectile.update(dt) is w.p,
\* carved is the heightmap with the crater of an impact there
projectileMoved(w, carved) ==
  IF isUnderground(w.g, w.p.x, w.p.y) THEN handleImpact(w, carved)
  ELSE IF isOutOfBounds(w.p) THEN leavePlayArea(w)
  ELSE w

\* GameScene.handleAITurn, ready being the result of TankAI.update(dt)
handleAITurn(w, ready) ==
  IF ready /\ ~w.sc.aiReadyToFire
  THEN [w EXCEPT !.sc = delayedCall([w.sc EXCEPT !.hasDecided = TRUE,
                                                 !.aiReadyToFire = TRUE], "aiFire")]
  ELSE [w EXCEPT !.sc.hasDecided = ready]

\* GameScene.update: the input part; space tells whether the space key was
\* just pressed, thought whether the thinking time of the AI has elapsed
handleInput(w, space, thought, aim) ==
  IF w.tm.state = "AIMING" /\ ~w.sc.tanksSettling
  THEN IF w.sc.vsAI /\ w.tm.currentPlayer = 2
       THEN handleAITurn(w, w.sc.hasDecided \/ thought)
       ELSE IF space THEN sceneFire(w, aim) ELSE w
  ELSE w

\* GameScene.update: the part of the falling tanks
updateSettling(w, dt) == IF w.sc.tanksSettling THEN updateTankFalling(w, dt) ELSE w

\* the scene after the callback of the delayed nextTurn: the AI is started
\* anew if the player is now the AI, whether nextTurn passed its guard or not
afterNextTurn(w) ==
  IF w.sc.vsAI /\ w.tm.currentPlayer = 2
  THEN [w EXCEPT !.sc.aiReadyToFire = FALSE, !.sc.hasDecided = FALSE]
  ELSE w

\* the callback of a delayed call of kind k; wind is what generateWind draws
\* if nextTurn passes its guard, aim is how the active tank aims
timerCallback(w, k, wind, aim) ==
  IF k = "settle" THEN startTankSettling(w)
  ELSE IF k = "resolve"
       THEN stateSet(w, resolveComplete(w.tm, w.sc.tanks[1].alive, w.sc.tanks[2].alive))
  ELSE IF k = "nextTurn" THEN afterNextTurn(stateSet(w, nextTurn(w.tm, wind)))
  ELSE IF w.tm.state = "AIMING" THEN sceneFire(w, aim)
  ELSE w

\* GameScene.restartGame on the terrain g that terrain.reset() generated,
\* wind being what generateWind draws: pending delayed calls, aiReadyToFire,
\* tanksSettling and the AI's hasDecided are left as they are
restartGame(w, g, wind) ==
  [w EXCEPT !.g = g, !.fresh = TRUE, !.p = projectileReset(w.p),
            !.tm = turnReset(w.tm, wind),
            !.sc.tanks = newTanks(g), !.sc.aimed = 0]

\* ------------------------------------------------------------------------
\* State
\* ------------------------------------------------------------------------

VARIABLES
  groundY,    \* Terrain.groundY, in units
  preset,     \* Terrain.preset
  seed,       \* Terrain.seed, the public read-only field
  rngSeed,    \* Terrain.rng.seed: the seed of the stream held now
  built,      \* history: the seed and heightmap the constructor produced
  fresh,      \* history: no carve since the last generation
  resets,     \* history: the number of reset calls so far
  last,       \* history: the last operation, its arguments and its result
  projectile, \* the scene's Projectile: its public fields and its wind
  streams,    \* SeededRandom instances held outside the terrain, by index
  shots,      \* history: the number of shots fired so far
  turnManager, \* the scene's TurnManager: state, currentPlayer, wind, winner
  scene       \* the rest of the GameScene: mode, flags, tanks, pending timers

\* what belongs to the scene besides the terrain
sceneVars == <<projectile, streams, shots, turnManager, scene>>

vars ==
  <<groundY, preset, seed, rngSeed, built, fresh, resets, last, projectile, streams, shots,
    turnManager, scene>>

\* seeds passed to the constructor and to reset, or produced by generateSeed()
Seeds == {160, 600}

\* craters asked for, <<cx, cy, radius>> in units
CraterArgs ==
  { <<U(400), U(450), U(EXPLOSION_RADIUS)>>,
    <<U(200) + Scale \div 2, U(500), U(2)>>,
    <<U(300), U(500), 0>>,
    <<U(350), U(520), -(Scale \div 2)>>,
    <<U(600), U(700), U(EXPLOSION_RADIUS)>>,
    <<U(430) + Scale \div 4, U(470), U(40)>>,
    <<U(-10), U(560), U(EXPLOSION_RADIUS)>> }

\* the craters of the runs that also reset
FewCraterArgs ==
  { <<U(400), U(450), U(EXPLOSION_RADIUS)>>,
    <<U(-10), U(560), U(EXPLOSION_RADIUS)>> }

\* x coordinates queried, in units
ProbeXs ==
  { -U(1), -1, 0, U(399) + Scale \div 2, U(WORLD_WIDTH) - 1, U(WORLD_WIDTH),
    U(WORLD_WIDTH + 1) }

\* the column a queried x falls into, or the nearest column when it falls outside
NearColumn(x) == Clamp(Floor(x, Scale), 0, WORLD_WIDTH - 1)

\* y coordinates queried at x, in units: around the surface and around the floor
ProbeYs(g, x) ==
  { -1, 0, g[NearColumn(x)] - 1, g[NearColumn(x)], g[NearColumn(x)] + 1,
    WorldHeight - 1, WorldHeight, WorldHeight + U(1) }

\* n tenths of a pixel, in units
Tenths(n) == (n * Scale) \div 10

\* the columns standing at least two pixels above both neighbours and above the
\* second column to the right: solid features one column wide
PeakColumns(g) ==
  { c \in 100 .. 700 :
      g[c - 1] >= g[c] + U(2) /\ g[c + 1] >= g[c] + U(2) /\ g[c + 2] >= g[c] + U(2) }

\* the column the rays are cast around: a peak where the heightmap has one
rayColumn(g) == IF PeakColumns(g) = {} THEN 400 ELSE CHOOSE c \in PeakColumns(g) : TRUE

\* rays cast, <<startX, startY, endX, endY>> in units, around column c with surface t
RayArgs(c, t) ==
  { <<U(c) + Tenths(5), t - Tenths(103), U(c) + Tenths(5), t + Tenths(52)>>,
    <<U(c) + Tenths(5), t - U(30), U(c) + Tenths(5), t - U(1)>>,
    <<U(c) - Tenths(33), t + Tenths(5), U(c) + Tenths(41), t + Tenths(5)>>,
    <<U(c) + Tenths(7), t - Tenths(2), U(c) + Tenths(23), t + Tenths(14)>>,
    <<U(c - 8), t - U(12), U(c + 4), t + U(16)>>,
    <<U(c) + Tenths(5), t + U(3), U(c + 5), t - U(20)>>,
    <<U(c), t - U(5), U(c), t - U(5)>>,
    <<U(c), t, U(c), t>>,
    <<U(c) + Tenths(5), t - U(7), U(c) + Tenths(5), t>>,
    <<U(WORLD_WIDTH - 3), U(580), U(WORLD_WIDTH + 3), U(610)>>,
    <<U(c - 10), t - U(60), U(c + 12), t - U(55)>> }

\* aims of a tank when it fires: <<10 cos, 10 sin, power>> of its angle
Aims == { <<10, 0, 200>>, <<8, 6, 400>>, <<6, 8, 400>>, <<8, 6, 200>> }

\* terrain.reset() in restartGame: the heightmap of the seed 600
RestartTerrain == generate(ZeroGround, "rolling_hills", 600)

\* widths of a heightmap: the small ones and the one of the game
Widths == (2 .. MaxWidth) \cup {WORLD_WIDTH}

\* aims in the game: a flat shot that lands near the tank and a shot backwards
\* that leaves the play area
GameAims == { <<10, 0, 60>>, <<-10, 0, 500>> }

\* winds of the shots, in units per second squared
ShotWinds == {0, -U(60)}

\* frame times handed to GameScene.update, in milliseconds
Deltas == {16}

\* seeds given to new SeededRandom
StreamSeeds == {0, 42, 12345, 32339094}

\* <<min, max>> handed to range
RangeArgs == { <<0, 1>>, <<-900, 900>>, <<20, 40>>, <<-3, -2>>, <<2^30, 2^30 + 1>> }

\* <<min, max>> handed to int
IntArgs == { <<0, 1>>, <<1, 3>>, <<5, 5>>, <<-2, 0>>, <<2^30, 2^30>> }

\* preset tables a build can be configured with: the one of config.ts, and
\* the same with the roughness of flat_plains set to 0 and to 1
PresetTables ==
  { TERRAIN_PRESETS,
    [TERRAIN_PRESETS EXCEPT !.flat_plains.roughness10 = 0],
    [TERRAIN_PRESETS EXCEPT !.flat_plains.roughness10 = 10] }

\* preset identifiers handed to the constructor, one of them unrecognized
PresetIds == {"flat_plains", "lunar"}

\* winds generateWind draws, in units per second squared
Winds == {-U(60), U(60)}

\* Projectile constructor: everything at zero, not in flight
NewProjectile ==
  [active |-> FALSE, x |-> 0, y |-> 0, prevX |-> 0, prevY |-> 0, vx |-> 0, vy |-> 0,
   wind |-> 0]

\* the scene as created, wind being what the TurnManager's constructor draws:
\* a projectile at rest and no random stream besides the terrain's
SceneWith(vsAI, wind) ==
  /\ projectile = NewProjectile
  /\ streams = << >>
  /\ shots = 0
  /\ turnManager = newTurnManager(wind)
  /\ scene = newScene(vsAI, groundY)

IdleScene == SceneWith(FALSE, 0)

\* constructor(scene, preset, seed?): seed ?? generateSeed() is some seed sd
Init ==
  \E p \in Presets, sd \in Seeds :
    /\ preset = p
    /\ rngSeed = sd
    /\ seed = sd
    /\ groundY = generate(ZeroGround, p, sd)
    /\ built = [seed |-> sd, groundY |-> groundY]
    /\ fresh = TRUE
    /\ resets = 0
    /\ last = [op |-> "new"]
    /\ IdleScene

\* the constructions of Init, each in a scene of two players with some wind
InitShot ==
  \E p \in Presets, sd \in Seeds, wind \in ShotWinds :
    /\ preset = p
    /\ rngSeed = sd
    /\ seed = sd
    /\ groundY = generate(ZeroGround, p, sd)
    /\ built = [seed |-> sd, groundY |-> groundY]
    /\ fresh = TRUE
    /\ resets = 0
    /\ last = [op |-> "new"]
    /\ SceneWith(FALSE, wind)

\* createCrater(cx, cy, radius) with <<cx, cy, radius>> taken from args
Carve(args) ==
  \E c \in args :
    /\ preset \in Presets
    /\ groundY' = updateHeightmapAfterCrater(groundY, c[1], c[2], c[3])
    /\ fresh' = FALSE
    /\ last' = [op |-> "createCrater", cx |-> c[1], cy |-> c[2], radius |-> c[3]]
    /\ UNCHANGED <<preset, seed, rngSeed, built, resets, sceneVars>>

CreateCrater == Carve(CraterArgs)

CreateCraterFew == Carve(FewCraterArgs)

\* isUnderground(x, y)
IsUnderground ==
  \E x \in ProbeXs :
    \E y \in ProbeYs(groundY, x) :
      /\ last' = [op |-> "isUnderground", x |-> x, y |-> y,
                  result |-> isUnderground(groundY, x, y)]
      /\ UNCHANGED <<groundY, preset, seed, rngSeed, built, fresh, resets, sceneVars>>

\* getGroundY(x)
GetGroundY ==
  \E x \in ProbeXs :
    /\ last' = [op |-> "getGroundY", x |-> x, result |-> getGroundY(groundY, x)]
    /\ UNCHANGED <<groundY, preset, seed, rngSeed, built, fresh, resets, sceneVars>>

\* raycastCollision(startX, startY, endX, endY)
RaycastCollision ==
  \E r \in RayArgs(rayColumn(groundY), groundY[rayColumn(groundY)]) :
    /\ last' = [op |-> "raycastCollision", sx |-> r[1], sy |-> r[2], ex |-> r[3],
                ey |-> r[4], result |-> raycastCollision(groundY, r[1], r[2], r[3], r[4])]
    /\ UNCHANGED <<groundY, preset, seed, rngSeed, built, fresh, resets, sceneVars>>

\* the scene and the terrain under it as one value, with what the handler
\* running on it has done so far
World ==
  [g |-> groundY, p |-> projectile, tm |-> turnManager, sc |-> scene, fresh |-> fresh,
   fired |-> FALSE, impact |-> FALSE, landed |-> FALSE]

\* the handler op leaves the scene and the terrain as w
SceneBecomes(op, w) ==
  /\ w.fired => shots < MaxShots
  /\ groundY' = w.g
  /\ projectile' = w.p
  /\ turnManager' = w.tm
  /\ scene' = w.sc
  /\ fresh' = w.fresh
  /\ shots' = IF w.fired THEN shots + 1 ELSE shots
  /\ last' = [op |-> op, before |-> turnManager, fired |-> w.fired, impact |-> w.impact,
              landed |-> w.landed]

\* the handler op, which is not the restart, leaves the scene and the terrain as w
Becomes(op, w) ==
  /\ SceneBecomes(op, w)
  /\ UNCHANGED <<preset, seed, rngSeed, built, resets, streams>>

\* GameScene.update(time, delta) with neither escape nor restart pressed: the
\* input, the projectile, the falling tanks
Frame(dt, space, thought, aim) ==
  \E input \in {handleInput(World, space, thought, aim)} :
    \E moved \in {[input EXCEPT !.p = IF @.active THEN projectileUpdate(@, dt) ELSE @]} :
      \E carved \in {IF input.p.active /\ isUnderground(moved.g, moved.p.x, moved.p.y)
                     THEN updateHeightmapAfterCrater(moved.g, moved.p.x, moved.p.y,
                                                     U(EXPLOSION_RADIUS))
                     ELSE moved.g} :
        \E hit \in {IF input.p.active THEN projectileMoved(moved, carved) ELSE moved} :
          \E w \in {updateSettling(hit, dt)} : Becomes("update", w)

\* GameScene.update(time, delta) in which the space key fires the active tank
FireWith(aims) ==
  \E aim \in aims, dt \in Deltas :
    /\ turnManager.state = "AIMING" /\ ~scene.tanksSettling
    /\ ~(scene.vsAI /\ turnManager.currentPlayer = 2)
    /\ Frame(dt, TRUE, FALSE, aim)

Fire == FireWith(Aims)

\* the same with the aims of the game
Shoot == FireWith(GameAims)

\* GameScene.update(time, delta) with no key pressed
Update == \E dt \in Deltas, thought \in BOOLEAN : Frame(dt, FALSE, thought, <<0, 0, 0>>)

\* GameScene.update(time, delta) while the projectile is active
UpdateProjectile == projectile.active /\ Update

\* Terrain.generate on a heightmap of some width: the endpoints are written,
\* then midpointDisplace(0, width - 1, variation, roughness) runs
MidpointDisplace ==
  \E width \in Widths :
    /\ last' = [op |-> "midpointDisplace", width |-> width,
                order |-> displaceOrder(0, width - 1)]
    /\ UNCHANGED <<groundY, preset, seed, rngSeed, built, fresh, resets, sceneVars>>

\* a pending delayed call of kind k expires and its callback runs
TimerFires(k) ==
  \E wind \in Winds, aim \in GameAims :
    /\ scene.timers[k] > 0
    /\ \E expired \in {[World EXCEPT !.sc.timers[k] = @ - 1]} :
         \E w \in {timerCallback(expired, k, wind, aim)} : Becomes(k, w)

StartSettling == TimerFires("settle")

ResolveLater == TimerFires("resolve")

NextTurnLater == TimerFires("nextTurn")

AIFires == TimerFires("aiFire")

\* GameScene.update(time, delta) with the restart key just pressed:
\* restartGame(), terrain.reset() drawing the seed 600
Restart ==
  \E wind \in Winds :
    /\ resets < MaxResets
    /\ resets' = resets + 1
    /\ rngSeed' = 600
    /\ \E w \in {restartGame(World, RestartTerrain, wind)} : SceneBecomes("restart", w)
    /\ UNCHANGED <<preset, seed, built, streams>>

\* reset(newSeed?): newSeed ?? generateSeed() is some seed sd
ResetWith(sds) ==
  \E sd \in sds :
    /\ resets < MaxResets
    /\ resets' = resets + 1
    /\ rngSeed' = sd
    /\ groundY' = generate(groundY, preset, sd)
    /\ fresh' = TRUE
    /\ last' = [op |-> "reset", newSeed |-> sd, dirty |-> (groundY # built.groundY)]
    /\ UNCHANGED <<preset, seed, built, sceneVars>>

Reset == ResetWith(Seeds)

\* scenario A: new Terrain(scene, 'flat_plains', 42)
InitScenarioA ==
  /\ preset = "flat_plains"
  /\ rngSeed = 42
  /\ seed = 42
  /\ groundY = generate(ZeroGround, "flat_plains", 42)
  /\ built = [seed |-> 42, groundY |-> groundY]
  /\ fresh = TRUE
  /\ resets = 0
  /\ last = [op |-> "new"]
  /\ IdleScene

\* scenario A: reset(42), the regeneration with the seed of the construction
ResetScenarioA == ResetWith({42})

\* scenario A's terrain and two more SeededRandom instances, created from
\* seeds s1 and s2
InitRandom ==
  \E s1 \in StreamSeeds, s2 \in StreamSeeds :
    /\ preset = "flat_plains"
    /\ rngSeed = 42
    /\ seed = 42
    /\ groundY = generate(ZeroGround, "flat_plains", 42)
    /\ built = [seed |-> 42, groundY |-> groundY]
    /\ fresh = TRUE
    /\ resets = 0
    /\ last = [op |-> "new"]
    /\ projectile = NewProjectile
    /\ shots = 0
    /\ turnManager = newTurnManager(0)
    /\ scene = newScene(FALSE, groundY)
    /\ streams = <<newSeededRandom(s1), newSeededRandom(s2)>>

\* random() called on instance i
Random(i) ==
  /\ i \in DOMAIN streams
  /\ streams[i].calls < MaxDraws
  /\ streams' = random(streams, i)
  /\ last' = [op |-> "random", instance |-> i]
  /\ UNCHANGED <<groundY, preset, seed, rngSeed, built, fresh, resets, projectile, shots, turnManager, scene>>

\* range(min, max) called on some instance
CallRange ==
  \E i \in DOMAIN streams, a \in RangeArgs :
    /\ streams[i].calls < MaxDraws
    /\ streams' = random(streams, i)
    /\ last' = [op |-> "range", instance |-> i, min |-> a[1], max |-> a[2],
                result |-> range(streams'[i].value, a[1], a[2])]
    /\ UNCHANGED <<groundY, preset, seed, rngSeed, built, fresh, resets, projectile, shots, turnManager, scene>>

\* int(min, max) called on some instance
CallInt ==
  \E i \in DOMAIN streams, a \in IntArgs :
    /\ streams[i].calls < MaxDraws
    /\ streams' = random(streams, i)
    /\ last' = [op |-> "int", instance |-> i, min |-> a[1], max |-> a[2],
                result |-> int(streams'[i].value, a[1], a[2])]
    /\ UNCHANGED <<groundY, preset, seed, rngSeed, built, fresh, resets, projectile, shots, turnManager, scene>>

RandomFirst == Random(1)

RandomSecond == Random(2)

\* new Terrain(scene, p, 42) under some preset table
InitConfig ==
  \E table \in PresetTables, p \in PresetIds :
    /\ preset = p
    /\ rngSeed = 42
    /\ seed = 42
    /\ groundY = construct(table, p, 42).groundY
    /\ built = [seed |-> 42, groundY |-> groundY]
    /\ fresh = (p \in DOMAIN table)
    /\ resets = 0
    /\ last = [op |-> "new", table |-> table, failed |-> construct(table, p, 42).failed]
    /\ IdleScene

\* GameScene.create: new Terrain(this) takes the default preset and draws a
\* seed; this is the heightmap of the seed 160
SceneTerrain == generate(ZeroGround, "rolling_hills", 160)

\* GameScene.create after init({vsAI}), wind being what the TurnManager's
\* constructor draws
SceneCreated(vsAI, wind) ==
  /\ preset = "rolling_hills"
  /\ rngSeed = 160
  /\ seed = 160
  /\ groundY = SceneTerrain
  /\ built = [seed |-> 160, groundY |-> groundY]
  /\ fresh = TRUE
  /\ resets = 0
  /\ last = [op |-> "new"]
  /\ projectile = NewProjectile
  /\ streams = << >>
  /\ shots = 0
  /\ turnManager = newTurnManager(wind)
  /\ scene = newScene(vsAI, groundY)

InitTurn == \E wind \in Winds : SceneCreated(FALSE, wind)

\* the scene as created, against a human or against the AI, the first wind
\* drawn being 0
InitGame == \E vsAI \in BOOLEAN : SceneCreated(vsAI, 0)

\* a call of the TurnManager method op that takes it to after
TurnCall(op, after, callback) ==
  /\ turnManager' = after
  /\ last' = [op |-> op, before |-> turnManager, callback |-> callback]
  /\ UNCHANGED <<groundY, preset, seed, rngSeed, built, fresh, resets, projectile,
                 streams, shots, scene>>

TurnFire ==
  TurnCall("fire", turnFire(turnManager), calledBack(turnManager, turnFire(turnManager)))

ProjectileLanded ==
  TurnCall("projectileLanded", projectileLanded(turnManager),
           calledBack(turnManager, projectileLanded(turnManager)))

ResolveComplete ==
  \E player1Alive \in BOOLEAN, player2Alive \in BOOLEAN :
    /\ turnManager' = resolveComplete(turnManager, player1Alive, player2Alive)
    /\ last' = [op |-> "resolveComplete", before |-> turnManager,
                callback |-> calledBack(turnManager, turnManager'),
                player1Alive |-> player1Alive, player2Alive |-> player2Alive]
    /\ UNCHANGED <<groundY, preset, seed, rngSeed, built, fresh, resets, projectile,
                   streams, shots, scene>>

NextTurn ==
  \E wind \in Winds :
    TurnCall("nextTurn", nextTurn(turnManager, wind),
             calledBack(turnManager, nextTurn(turnManager, wind)))

TurnReset ==
  \E wind \in Winds : TurnCall("reset", turnReset(turnManager, wind), FALSE)

\* the heightmap scenario B starts from: every column at 450
InitFlat ==
  /\ preset = "flat_plains"
  /\ rngSeed = 42
  /\ seed = 42
  /\ groundY = [x \in Columns |-> U(450)]
  /\ built = [seed |-> 42, groundY |-> groundY]
  /\ fresh = TRUE
  /\ resets = 0
  /\ last = [op |-> "new"]
  /\ IdleScene

\* construction and carving
Next == CreateCrater

Spec == Init /\ [][Next]_vars

\* construction, carving and queries
NextQuery == CreateCraterFew \/ IsUnderground \/ GetGroundY

SpecQuery == Init /\ [][NextQuery]_vars

\* construction, carving and ray casts
NextRay == CreateCraterFew \/ RaycastCollision

SpecRay == Init /\ [][NextRay]_vars

\* construction and shots
NextShot == Fire \/ UpdateProjectile

\* scenario A's construction and the recursion of the generation
SpecDisplace == InitScenarioA /\ [][MidpointDisplace]_vars

\* the game: frames, key presses and delayed calls in any order
NextGame ==
  Shoot \/ Update \/ StartSettling \/ ResolveLater \/ NextTurnLater \/ AIFires \/ Restart

SpecGame == InitGame /\ [][NextGame]_vars

\* the game without restart: frames keep coming and delayed calls expire
NextPlay == Shoot \/ Update \/ StartSettling \/ ResolveLater \/ NextTurnLater \/ AIFires

SpecPlay ==
  /\ InitGame
  /\ [][NextPlay]_vars
  /\ WF_vars(Update)
  /\ \A k \in TimerKinds : WF_vars(TimerFires(k))

SpecShot == InitShot /\ [][NextShot]_vars

\* construction, carving and resets
NextReset == CreateCraterFew \/ Reset

SpecReset == Init /\ [][NextReset]_vars

\* scenario A: construction with seed 42, carving, regeneration with seed 42
NextScenarioA == CreateCrater \/ ResetScenarioA

SpecScenarioA == InitScenarioA /\ [][NextScenarioA]_vars

\* calls on two SeededRandom instances, in any order
NextRandom == RandomFirst \/ RandomSecond

SpecRandom == InitRandom /\ [][NextRandom]_vars

\* range and int called on two SeededRandom instances, in any order
NextRange == CallRange \/ CallInt

SpecRange == InitRandom /\ [][NextRange]_vars

\* construction under some configuration, then carving
SpecConfig == InitConfig /\ [][Next]_vars

\* the methods of the TurnManager called in any order
NextTurnManager == TurnFire \/ ProjectileLanded \/ ResolveComplete \/ NextTurn \/ TurnReset

SpecTurn == InitTurn /\ [][NextTurnManager]_vars

\* carving on the flat heightmap of scenario B
SpecFlat == InitFlat /\ [][Next]_vars

\* ------------------------------------------------------------------------
\* Properties
\* ------------------------------------------------------------------------

\* the last step was a createCrater call
Carved == last.op = "createCrater"

\* column x lies outside the horizontal span [cx - radius, cx + radius]
OutsideSpan(x, c) == U(x) < c.cx - c.radius \/ U(x) > c.cx + c.radius

\* craterBottom = centerY + sqrt(max(0, radius^2 - (x - centerX)^2)) at column x
CraterBottomAt(x, c) ==
  c.cy + Sqrt(Max(0, c.radius * c.radius - (U(x) - c.cx) * (U(x) - c.cx)))

\* craterTop = centerY - sqrt(max(0, radius^2 - (x - centerX)^2)) at column x
CraterTopAt(x, c) ==
  c.cy - Sqrt(Max(0, c.radius * c.radius - (U(x) - c.cx) * (U(x) - c.cx)))

\* C1: generation is deterministic: a heightmap regenerated by reset with the
\* seed the constructor used equals, column for column, the heightmap the
\* constructor produced, whatever was carved in between.
C1_Determinism ==
  (fresh /\ rngSeed = built.seed) => groundY = built.groundY

\* C1 witness: a reset with the constructor's seed ran on a carved heightmap
C1_Witness ==
  /\ last.op = "reset"
  /\ last.dirty
  /\ last.newSeed = built.seed

\* C2: carve monotonicity: no createCrater call lowers the value of groundY at
\* any column (the ground never regrows).
C2_CarveMonotone ==
  [][Carved' => \A x \in Columns : groundY'[x] >= groundY[x]]_vars

\* C2 witness: a carve has dug some column deeper than generation left it
C2_Witness ==
  /\ Carved
  /\ \E x \in Columns : groundY[x] > built.groundY[x]

\* C3: carve containment: a createCrater call leaves every column outside
\* [centerX - radius, centerX + radius] as it was.
C3_CarveContained ==
  [][Carved' => \A x \in Columns : OutsideSpan(x, last') => groundY'[x] = groundY[x]]_vars

\* C4 as claimed: every column of the span with craterBottom at or below the
\* current ground ends at min(worldHeight, craterBottom), for every centerY;
\* the columns with craterBottom above the ground are untouched.
C4_CarveRuleAnyCentre ==
  [][Carved' =>
       \A x \in Columns :
         ~OutsideSpan(x, last') =>
           LET craterBottom == CraterBottomAt(x, last')
           IN IF craterBottom >= groundY[x]
              THEN groundY'[x] = Min(WorldHeight, craterBottom)
              ELSE groundY'[x] = groundY[x]]_vars

\* C4 amended: the update applies only where the circle's upper boundary at the
\* column, craterTop, is above the world floor; elsewhere the column is untouched.
C4_CarveRule ==
  [][Carved' =>
       \A x \in Columns :
         ~OutsideSpan(x, last') =>
           LET craterBottom == CraterBottomAt(x, last')
           IN IF craterBottom >= groundY[x] /\ CraterTopAt(x, last') < WorldHeight
              THEN groundY'[x] = Min(WorldHeight, craterBottom)
              ELSE groundY'[x] = groundY[x]]_vars

\* C4 witness: a carve whose circle lies below the world floor at its centre column
C4_Witness ==
  /\ Carved
  /\ last.cy - last.radius >= WorldHeight
  /\ last.radius > 0

\* C5 as claimed: every column stays within the bounds of the generation's
\* final clamp, [100, worldHeight - 50], at all times.
C5_ClampBoundsAlways ==
  \A x \in Columns :
    groundY[x] >= U(ClampMin) /\ groundY[x] <= WorldHeight - U(ClampMargin)

\* C5 amended: every column stays within [100, worldHeight] at all times, and
\* within [100, worldHeight - 50] from a generation until the next carve.
C5_ClampBounds ==
  \A x \in Columns :
    /\ groundY[x] >= U(ClampMin)
    /\ groundY[x] <= WorldHeight
    /\ fresh => groundY[x] <= WorldHeight - U(ClampMargin)

\* C5 witness: after a reset, a carve has taken a column past the line
\* worldHeight - 50 of the generation's clamp
C5_Witness ==
  /\ Carved
  /\ resets > 0
  /\ \E x \in Columns : groundY[x] > WorldHeight - U(ClampMargin)

\* C6: the world floor is never breached: every column is at most worldHeight.
C6_FloorNeverBreached ==
  \A x \in Columns : groundY[x] <= WorldHeight

\* C6 witness: a carve whose circle reaches below the floor has put a column on it
C6_Witness ==
  /\ Carved
  /\ last.cy + last.radius > WorldHeight
  /\ \E x \in Columns : groundY[x] = WorldHeight

\* C7: a createCrater call with radius <= 0 leaves the heightmap as it was.
C7_NonPositiveRadiusNoOp ==
  [][(Carved' /\ last'.radius <= 0) => groundY' = groundY]_vars

\* C8: scenario B: on the heightmap with every column at 450, carve(400, 450, 60)
\* puts column 400 at 510 and leaves column 500 at 450.
C8_ScenarioB ==
  [][( /\ \A x \in Columns : groundY[x] = U(450)
       /\ Carved'
       /\ <<last'.cx, last'.cy, last'.radius>> = <<U(400), U(450), U(60)>> )
     => (groundY'[400] = U(510) /\ groundY'[500] = U(450))]_vars

\* C8 witness: the scenario's carve was the first one on the flat heightmap
C8_Witness ==
  /\ Carved
  /\ <<last.cx, last.cy, last.radius>> = <<U(400), U(450), U(60)>>
  /\ groundY[400] = U(510)
  /\ groundY[0] = U(450) /\ groundY[500] = U(450) /\ groundY[WORLD_WIDTH - 1] = U(450)

\* C9: isUnderground(x, y) is true iff 0 <= x < W and (y >= groundY[floor(x)] or
\* y >= worldHeight); for x outside [0, W) it is false.
C9_PointIsSolid ==
  last.op = "isUnderground" =>
    ( last.result <=>
        ( /\ last.x >= 0
          /\ last.x < U(WORLD_WIDTH)
          /\ (last.y >= groundY[Floor(last.x, Scale)] \/ last.y >= WorldHeight) ) )

\* C9 witness: after a carve, a query exactly on the surface of an in-range
\* column, answered "solid"
C9_Witness ==
  /\ last.op = "isUnderground"
  /\ ~fresh
  /\ last.x >= 0 /\ last.x < U(WORLD_WIDTH)
  /\ last.y = groundY[Floor(last.x, Scale)]
  /\ last.result

\* C10 as claimed: getGroundY(x) is the value of the column floor(x) clamped to
\* [0, W - 1]: the edge column's value when x is outside the range.
C10_GroundHeightClamped ==
  last.op = "getGroundY" => last.result = groundY[NearColumn(last.x)]

\* C10 amended: getGroundY(x) is groundY[floor(x)] for x in [0, W) and the
\* screen height (600) for x < 0 and for x >= W; it never fails.
C10_GroundHeight ==
  last.op = "getGroundY" =>
    last.result = IF last.x >= 0 /\ last.x < U(WORLD_WIDTH)
                  THEN groundY[Floor(last.x, Scale)]
                  ELSE U(SCREEN_HEIGHT)

\* C10 witness: a query left of the world, answered with the screen height
\* while column 0 is higher up
C10_Witness ==
  /\ last.op = "getGroundY"
  /\ last.x < 0
  /\ last.result = U(SCREEN_HEIGHT)
  /\ groundY[0] < U(SCREEN_HEIGHT)

\* the ray of the last raycastCollision call: its vector and its step count
RayDx == last.ex - last.sx

RayDy == last.ey - last.sy

RaySteps == raySteps(RayDx, RayDy)

\* the indices of the samples of the last ray that are solid
SolidSamples ==
  { k \in 0 .. RaySteps :
      isUnderground(groundY, raySample(last.sx, RayDx, RaySteps, k),
                    raySample(last.sy, RayDy, RaySteps, k)) }

\* C11: raycastCollision answers with the first sample p_k, k = 0 .. steps, that
\* isUnderground holds of, and with null iff no sample is solid.
C11_FirstSolidSample ==
  last.op = "raycastCollision" =>
    /\ last.result.hit <=> SolidSamples # {}
    /\ last.result.hit =>
         \E k \in SolidSamples :
           /\ \A j \in SolidSamples : k <= j
           /\ last.result.x = raySample(last.sx, RayDx, RaySteps, k)
           /\ last.result.y = raySample(last.sy, RayDy, RaySteps, k)

\* C11 witness: a ray that starts in the air and whose only solid sample is its
\* end point, answered with that point
C11_Witness ==
  /\ last.op = "raycastCollision"
  /\ last.result.hit
  /\ RaySteps > 1
  /\ SolidSamples = {RaySteps}
  /\ last.result.y = last.ey

\* the number of points the segment of the last ray is examined at: one per unit
\* of its longer extent
FineSteps ==
  Max(1, Max(IF RayDx < 0 THEN -RayDx ELSE RayDx, IF RayDy < 0 THEN -RayDy ELSE RayDy))

\* the segment of the last ray passes through a solid point of column c
CrossesSolidOf(c) ==
  \E j \in 0 .. FineSteps :
    /\ Floor(raySample(last.sx, RayDx, FineSteps, j), Scale) = c
    /\ isUnderground(groundY, raySample(last.sx, RayDx, FineSteps, j),
                     raySample(last.sy, RayDy, FineSteps, j))

\* C12: no tunneling: on a heightmap with a solid feature one column wide, every
\* ray whose segment crosses the solid part of that column is detected.
C12_NoTunneling ==
  ( /\ last.op = "raycastCollision"
    /\ PeakColumns(groundY) # {}
    /\ CrossesSolidOf(rayColumn(groundY)) )
  => last.result.hit

\* the column of the start of the last ray
RayColumn == Floor(last.sx, Scale)

\* the last ray is vertical, at an in-range column, from strictly above the
\* surface to strictly below it
VerticalThroughSurface ==
  /\ last.sx = last.ex
  /\ last.sx >= 0 /\ last.sx < U(WORLD_WIDTH)
  /\ last.sy < groundY[RayColumn]
  /\ last.ey > groundY[RayColumn]

\* every point of the last ray is in bounds and strictly above the surface: the
\* box around the ray is in bounds and above the surface of every column it meets
WhollyAboveSurface ==
  /\ Min(last.sx, last.ex) >= 0 /\ Max(last.sx, last.ex) < U(WORLD_WIDTH)
  /\ Min(last.sy, last.ey) >= 0
  /\ \A c \in Floor(Min(last.sx, last.ex), Scale) .. Floor(Max(last.sx, last.ex), Scale) :
       Max(last.sy, last.ey) < groundY[c]

\* C13: a vertical ray from strictly above the surface of an in-range column to
\* strictly below it is answered with a point of that column whose y is at or
\* below the surface by less than one sampling step; a ray wholly in bounds and
\* above the surface is answered with null.
C13_RaycastCorrect ==
  last.op = "raycastCollision" =>
    /\ VerticalThroughSurface =>
         /\ last.result.hit
         /\ last.result.x = last.sx
         /\ last.result.y >= groundY[RayColumn]
         /\ last.result.y < groundY[RayColumn] + Ceil(RayDy, RaySteps)
    /\ WhollyAboveSurface => ~last.result.hit

\* C13 witness: a vertical ray through the surface, several steps long, answered
\* with a point under the surface that is not the end of the ray
C13_Witness ==
  /\ last.op = "raycastCollision"
  /\ VerticalThroughSurface
  /\ RaySteps > 10
  /\ last.result.hit
  /\ last.result.y < last.ey

\* the witness of the second half of C13: a ray of several steps wholly above
\* the surface, answered with null
C13_AboveReached ==
  /\ last.op = "raycastCollision"
  /\ WhollyAboveSurface
  /\ RaySteps > 10
  /\ ~last.result.hit

\* C14: projectiles cannot tunnel: in every frame in which the segment from the
\* projectile's previous position to its new one passes through a solid point of
\* the terrain (here: a sample of the ray between the two is solid), an impact
\* is registered in that frame.
C14_NoProjectileTunneling ==
  [][( /\ last'.op = "update"
       /\ raycastCollision(groundY, projectile'.prevX, projectile'.prevY,
                           projectile'.x, projectile'.y).hit )
     => last'.impact]_vars

\* C15: edge flatness: after a generation, for every preset and seed, the
\* columns of the left margin (flatWidth columns) all have one height, and so
\* have the columns of the right margin; the final clamp keeps it so.
C15_EdgeFlatness ==
  fresh =>
    /\ \A x \in 0 .. (flatWidth - 1) : groundY[x] = groundY[0]
    /\ \A x \in (WORLD_WIDTH - flatWidth) .. (WORLD_WIDTH - 1) :
         groundY[x] = groundY[WORLD_WIDTH - 1]

\* C15 witness: a cratered heightmap regenerated by reset, uneven just inside of
\* both margins
C15_Witness ==
  /\ fresh
  /\ resets > 0
  /\ preset = "cratered"
  /\ groundY[flatWidth + 5] # groundY[0]
  /\ groundY[WORLD_WIDTH - flatWidth - 5] # groundY[WORLD_WIDTH - 1]

\* GameScene.createTanks: the x of tank 2
tank2X == WORLD_WIDTH - tank1X

\* C16: flat landing zone at spawn: after a generation the ground under each
\* spawn column (x = 80 and x = W - 80) and under its immediate neighbours has
\* one height, whatever the seed and the preset.
C16_FlatAtSpawn ==
  fresh =>
    /\ groundY[tank1X - 1] = groundY[tank1X] /\ groundY[tank1X + 1] = groundY[tank1X]
    /\ groundY[tank2X - 1] = groundY[tank2X] /\ groundY[tank2X + 1] = groundY[tank2X]

\* the difference of two heights
Distance(a, b) == IF a < b THEN b - a ELSE a - b

\* the edge epsilon, taken as generously as one pixel
edgeEpsilon == U(1)

\* C17 as stated: in scenario A, after a generation, groundHeight(0) and
\* groundHeight(799) differ by less than the edge epsilon.
C17_EdgesAgree ==
  fresh =>
    Distance(getGroundY(groundY, 0), getGroundY(groundY, U(WORLD_WIDTH - 1)))
      < edgeEpsilon

\* C17: in scenario A (flat_plains, seed 42), after a generation,
\* groundHeight(0) is the height of the left margin's inner column (column 60)
\* and groundHeight(799) is the height of the right margin's inner column
\* (column 740); nothing ties the two together, and they are more than a
\* pixel apart.
C17_EdgesFollowInnerColumns ==
  fresh =>
    /\ getGroundY(groundY, 0) = groundY[flatWidth]
    /\ getGroundY(groundY, U(WORLD_WIDTH - 1)) = groundY[WORLD_WIDTH - flatWidth]
    /\ Distance(getGroundY(groundY, 0), getGroundY(groundY, U(WORLD_WIDTH - 1)))
         >= edgeEpsilon

\* C17 witness: scenario A regenerated by reset(42) over a carved heightmap
C17_Witness ==
  /\ fresh
  /\ preset = "flat_plains"
  /\ rngSeed = 42
  /\ last.op = "reset"
  /\ last.dirty
  /\ getGroundY(groundY, 0) # getGroundY(groundY, U(WORLD_WIDTH - 1))

\* new Terrain(scene, p, sd).groundY: generation over the zero-filled array
FreshTerrain(p, sd) == generate(ZeroGround, p, sd)

\* C18: reset regenerates from scratch: after any carving, the heightmap that
\* reset(s) leaves equals, column for column, the heightmap of a terrain newly
\* constructed with the same preset and the seed s; no column keeps a value of
\* the earlier generation or of a carve.
C18_ResetFromScratch ==
  (fresh /\ resets > 0) => groundY = FreshTerrain(preset, rngSeed)

\* C18 witness: reset with a seed other than the constructor's ran on a carved
\* heightmap and left another heightmap than the constructor did
C18_Witness ==
  /\ last.op = "reset"
  /\ last.dirty
  /\ last.newSeed # built.seed
  /\ groundY # built.groundY

\* C19: the effective seed is exposed: in every state, also after reset, the
\* terrain's readable seed is the seed of the random stream that generated
\* the current heightmap.
C19_SeedExposed == seed = rngSeed

\* the k-th value (k >= 1) of the closure createRandom(seed) makes, the
\* closure state being s before the first of the k calls
RECURSIVE NthValue(_, _)
NthValue(s, k) ==
  IF k <= 1 THEN Mulberry32(s).value ELSE NthValue(Mulberry32(s).state, k - 1)

\* C20: random streams are independent and seed-determined: under any
\* interleaving of calls on two SeededRandom instances, the k-th value an
\* instance returns is the k-th value of the mulberry32 sequence of its own
\* seed, whatever was called on the other instance; so two instances of one
\* seed return the same sequence.
C20_IndependentStreams ==
  /\ \A i \in DOMAIN streams :
       streams[i].calls > 0 =>
         streams[i].value = NthValue(Word(streams[i].seed), streams[i].calls)
  /\ \A i \in DOMAIN streams, j \in DOMAIN streams :
       (streams[i].seed = streams[j].seed /\ streams[i].calls = streams[j].calls)
         => streams[i].value = streams[j].value

\* C20 witness: two instances of one seed, the second called twice after the
\* first was called three times, the second's value being that of its own
\* second call
C20_Witness ==
  /\ Len(streams) = 2
  /\ streams[1].seed = streams[2].seed
  /\ streams[1].calls = 3
  /\ streams[2].calls = 2
  /\ last.op = "random"
  /\ last.instance = 2
  /\ streams[2].value # streams[1].value

\* a 32-bit numerator n stands for the value n / 2^32 of [0, 1)
InUnitInterval(v) == v[1] \in 0 .. (H16 - 1) /\ v[2] \in 0 .. (H16 - 1)

\* C21: range of the random operations: every value drawn is a 32-bit
\* numerator over 2^32, hence in [0, 1); range(min, max) with min < max
\* returns a value in [min, max); int(min, max) with min <= max returns an
\* integer in [min, max].
C21_RandomRanges ==
  /\ \A i \in DOMAIN streams : InUnitInterval(streams[i].value)
  /\ last.op = "range" =>
       (last.min <= last.result.whole /\ last.result.whole < last.max)
  /\ last.op = "int" => (last.min <= last.result /\ last.result <= last.max)

\* the configuration of the construction is one the spec calls misconfigured:
\* an unrecognized preset identifier, or a roughness outside (0, 1)
Misconfigured ==
  \/ preset \notin DOMAIN last.table
  \/ last.table[preset].roughness10 \notin 1 .. 9

\* C22: construction-time misconfiguration fails fast: a construction with an
\* unrecognized preset identifier or with a roughness outside (0, 1) ends in an
\* error and produces no heightmap.
C22_FailFast ==
  (last.op = "new" /\ Misconfigured) => (last.failed /\ groundY = ZeroGround)

\* the state changes the turn state machine allows, by method
Allowed(op, from, to) ==
  \/ op = "fire" /\ from = "AIMING" /\ to = "FIRING"
  \/ op = "projectileLanded" /\ from = "FIRING" /\ to = "RESOLVING"
  \/ op = "resolveComplete" /\ from = "RESOLVING" /\ to \in {"TURN_END", "GAME_OVER"}
  \/ op = "nextTurn" /\ from = "TURN_END" /\ to = "AIMING"

\* the last call was one of fire, projectileLanded, resolveComplete, nextTurn
TurnMethod == last.op \in {"fire", "projectileLanded", "resolveComplete", "nextTurn"}

\* C25: turn state machine order and guards: a call of fire, projectileLanded,
\* resolveComplete or nextTurn either makes one of the state changes
\* AIMING->FIRING, FIRING->RESOLVING, RESOLVING->TURN_END or GAME_OVER,
\* TURN_END->AIMING (each by its own method) and invokes the callback, or
\* leaves state, currentPlayer, wind and winner unchanged and invokes no
\* callback.
C25_TurnStateMachine ==
  TurnMethod =>
    \/ Allowed(last.op, last.before.state, turnManager.state) /\ last.callback
    \/ turnManager = last.before /\ ~last.callback

\* C25 witness: nextTurn called while a projectile is in flight did nothing,
\* on the turn of player 2
C25_Witness ==
  /\ last.op = "nextTurn"
  /\ last.before.state = "FIRING"
  /\ turnManager.currentPlayer = 2
  /\ ~last.callback

\* C26: winner consistency: winner is 1 or 2 iff the state is GAME_OVER and 0
\* otherwise; resolveComplete in RESOLVING names player 2 when player 1 is
\* dead (also when both are) and player 1 when only player 2 is dead;
\* GAME_OVER is left only by reset.
C26_WinnerConsistency ==
  /\ turnManager.winner \in {1, 2} <=> turnManager.state = "GAME_OVER"
  /\ turnManager.state # "GAME_OVER" => turnManager.winner = 0
  /\ (TurnMethod /\ last.before.state = "GAME_OVER") => turnManager = last.before
  /\ (last.op = "resolveComplete" /\ last.before.state = "RESOLVING") =>
       /\ ~last.player1Alive => turnManager.winner = 2
       /\ (last.player1Alive /\ ~last.player2Alive) => turnManager.winner = 1
       /\ (last.player1Alive /\ last.player2Alive) => turnManager.state = "TURN_END"

\* C26 witness: both players dead at resolveComplete on the turn of player 2
C26_Witness ==
  /\ last.op = "resolveComplete"
  /\ last.before.state = "RESOLVING"
  /\ last.before.currentPlayer = 2
  /\ ~last.player1Alive
  /\ ~last.player2Alive
  /\ turnManager.state = "GAME_OVER"

\* C23: at most one carve per turn: between one entry into FIRING and the next
\* entry into AIMING or GAME_OVER createCrater is called at most once, whatever
\* the order of frames, delayed calls and key presses: every call of
\* createCrater is the impact of the shot in flight and ends the flight, and a
\* shot that leaves the play area changes no column and counts no carve.
C23_OneCarvePerTurn ==
  [][ /\ scene'.carves <= 1
      /\ (last'.op # "restart" /\ (groundY' # groundY \/ scene'.carves > scene.carves))
           => /\ last'.impact
              /\ turnManager.state = "FIRING" \/ last'.fired
              /\ turnManager'.state # "FIRING"
              /\ ~projectile'.active
      /\ (last'.op = "update" /\ last'.landed /\ ~last'.impact)
           => (groundY' = groundY /\ scene'.carves = 0) ]_vars

\* C23's case: a turn is over, the other player aims, and the turn saw one carve
C23_Witness ==
  /\ scene.carves = 1
  /\ scene.aimed = 1
  /\ turnManager.state = "AIMING"
  /\ turnManager.currentPlayer = 2

\* C24: players take turns: currentPlayer changes only in nextTurn when the
\* state is TURN_END, and in the restart, which sets it to 1; an AIMING phase
\* that follows another one without a restart in between belongs to the other
\* player; a delayed nextTurn callback, stale ones of before a restart
\* included, never switches the player in another state than TURN_END.
C24_PlayersAlternate ==
  [][ /\ turnManager'.currentPlayer # turnManager.currentPlayer
           => \/ last'.op = "restart" /\ turnManager'.currentPlayer = 1
              \/ /\ last'.op = "nextTurn"
                 /\ turnManager.state = "TURN_END"
                 /\ turnManager'.state = "AIMING"
      /\ (turnManager'.state = "AIMING" /\ scene'.aimed # 0)
           => turnManager'.currentPlayer # scene'.aimed ]_vars

\* C24's case: the game was restarted, player 1 has aimed and fired since, and
\* now player 2 aims
C24_Witness ==
  /\ resets > 0
  /\ scene.aimed = 1
  /\ turnManager.state = "AIMING"
  /\ turnManager.currentPlayer = 2
  /\ last.op = "nextTurn"

\* C28: the AI's delayed fire acts only on the AI's turn: when the delayed call
\* of handleAITurn expires, a projectile is fired only if the game is against
\* the AI and it is player 2 who aims.
C28_AIFiresOnItsTurn ==
  [][(last'.op = "aiFire" /\ last'.fired)
       => (scene.vsAI /\ turnManager.state = "AIMING" /\ turnManager.currentPlayer = 2)]_vars

\* C30: every shot resolves: with frames going on, pending delayed calls
\* expiring and no restart, a game in FIRING reaches AIMING or GAME_OVER.
C30_EveryShotResolves ==
  (turnManager.state = "FIRING") ~> (turnManager.state \in {"AIMING", "GAME_OVER"})

\* C30's case: a frame in which the last falling tank lands ends the resolution
C30_Witness ==
  /\ last.op = "update"
  /\ last.before.state = "RESOLVING"
  /\ turnManager.state = "TURN_END"
  /\ scene.carves = 1
  /\ ~scene.tanksSettling

\* the columns written before the k-th write of the recursion: the two
\* endpoints, which generate writes first, and the earlier midpoints
AssignedBefore(order, width, k) == {0, width - 1} \cup {order[j].mid : j \in 1 .. (k - 1)}

\* C27: midpoint displacement terminates and covers every column: for every
\* width W >= 2 the recursion midpointDisplace(0, W - 1) ends, every span it
\* splits is split into two strictly shorter ones, it writes each interior
\* column 1 .. W-2 exactly once, and the two columns it averages have been
\* written before in the same run.
C27_DisplacementCovers ==
  last.op = "midpointDisplace" =>
    /\ Len(last.order) = last.width - 2
    /\ \A x \in 1 .. (last.width - 2) :
         Cardinality({k \in 1 .. Len(last.order) : last.order[k].mid = x}) = 1
    /\ \A k \in 1 .. Len(last.order) :
         /\ last.order[k].left < last.order[k].mid
         /\ last.order[k].mid < last.order[k].right
         /\ last.order[k].left \in AssignedBefore(last.order, last.width, k)
         /\ last.order[k].right \in AssignedBefore(last.order, last.width, k)

\* C27's case: the recursion has run on the width of the game
C27_Witness ==
  /\ last.op = "midpointDisplace"
  /\ last.width = WORLD_WIDTH
  /\ Len(last.order) = WORLD_WIDTH - 2
  /\ last.order[1].mid = Floor(WORLD_WIDTH - 1, 2)

\* createCrater(c) on the heightmap g, as far as the heightmap goes
carve(g, c) == updateHeightmapAfterCrater(g, c[1], c[2], c[3])

\* C29: carves are idempotent and order-independent on the heightmap: on a
\* heightmap with all columns <= worldHeight, the carve just applied changes
\* nothing when applied again, and applying a carve A and then a carve B gives
\* the heightmap of B and then A.
C29_CarvesCommute ==
  [][(last'.op = "createCrater" /\ \A x \in Columns : groundY[x] <= WorldHeight)
       => /\ carve(groundY', <<last'.cx, last'.cy, last'.radius>>) = groundY'
          /\ \A b \in CraterArgs :
               \A first \in {carve(groundY, b)} :
                 carve(groundY', b) = carve(first, <<last'.cx, last'.cy, last'.radius>>)]_vars

\* C29's case: the carve just applied reaches below the surface as it was
\* generated at a column that an earlier carve has dug deeper
C29_Witness ==
  /\ last.op = "createCrater"
  /\ \A x \in Columns : groundY[x] <= WorldHeight
  /\ \E x \in Columns :
       /\ ~OutsideSpan(x, last)
       /\ CraterBottomAt(x, last) > built.groundY[x]
       /\ CraterTopAt(x, last) < WorldHeight
       /\ groundY[x] > CraterBottomAt(x, last)

====
